---- MODULE Spec2Model ----
(***************************************************************************)
(* inventree-part-import: the supplier registry (get_supplier_classes,     *)
(* setup_supplier_companies) and the concurrent search dispatcher (search) *)
(* of src/inventree_part_import/suppliers/__init__.py.                     *)
(*                                                                         *)
(* A Python dict is modelled as a record [isNone, keys, vals]: keys and    *)
(* vals are sequences in insertion order (dicts iterate in insertion       *)
(* order), isNone tells the module-level None apart from an empty dict.    *)
(***************************************************************************)
EXTENDS Integers, Sequences, FiniteSets, TLC

\* ------------------------------------------------------------------ bounds

\* number of supplier_*.py files the glob of get_supplier_classes finds
NModules == 3
\* how many times setup_supplier_companies is run
MaxSetupRuns == 2
\* how many search calls reach the dispatch (create a ThreadPool)
MaxSearches == 2
\* how many times the discovery loop is run
MaxDiscoveries == 2
\* number of supplier_*.py files in the forced re-discovery scenario
ReloadModules == 2
\* suppliers loaded in the fan-out scenario (one search call and its pool)
FanoutModules == 4
\* suppliers loaded and dispatching searches in the shared-capacity scenario
PoolModules == 5
PoolSearches == 2
\* retry_timeouts(): the configured maximum number of attempts
MaxAttempts == 2
\* parts in one response body, pages of one generic lookup
MaxParts == 1
MaxPages == 2
\* access tokens the token endpoint issues
MaxTokens == 3
\* the clock runs from 0 to MaxClock in steps of Tick seconds
MaxClock == 180
Tick == 60
\* worker threads inside TIApi._getOauthToken at the same time
Workers == 2
\* price breaks of an FE part, currency-tagged price lists of a TI part
MaxBreaks == 3
MaxLists == 3

\* ------------------------------------------------------- program constants

\* ThreadPool(processes=8)
Processes == 8
\* nextRequestBuffer = 60 in TIApi._getOauthToken
nextRequestBuffer == 60

\* ------------------------------------------------------------------- state

VARIABLES
    _SUPPLIER_OBJECTS,    \* module global: None or dict id -> supplier object
    AVAILABLE_SUPPLIERS,  \* module global: None or list of ids
    _SUPPLIER_COMPANIES,  \* module global: None or dict id -> company
    _SUPPLIERS,           \* module global: None or dict id -> (object, company)
    tasks,                \* every task submitted with apply_async, in submission order
    ret,                  \* outcome of the last call made by the caller thread
    runs,                 \* counters: discovery loops, setup runs, pools created
    clock,                \* time.monotonic(), in seconds
    ti_api,               \* the TIApi object of the TI adapter: its cached token
    frames,               \* per worker thread: its frame of TIApi._getOauthToken
    issued,               \* number of access tokens the TI token endpoint has issued
    adapter,              \* outcome of the last call of an adapter's search
    paging                \* the frame of the TIApi._paginate_api_call in progress

\* the state of the supplier adapters
adapterVars == <<clock, ti_api, frames, issued, adapter, paging>>

vars == <<_SUPPLIER_OBJECTS, AVAILABLE_SUPPLIERS, _SUPPLIER_COMPANIES,
          _SUPPLIERS, tasks, ret, runs, adapterVars>>

\* ----------------------------------------------------------------- helpers

None == [isNone |-> TRUE, keys |-> <<>>, vals |-> <<>>]

Dict(k, v) == [isNone |-> FALSE, keys |-> k, vals |-> v]

Range(s) == {s[i] : i \in DOMAIN s}

\* what importing a supplier module can do
ModuleKinds == {"ok", "import_error", "no_class", "multi_class", "raises"}

\* supplier ids: module m has the id m (module_name.split("supplier_", 1)[-1])
\* 0 stands for a falsy supplier_id (None or ""), UnknownId for an id of no module
NoSupplier == 0

UnknownId(n) == n + 1

\* the arguments of a call: supplier_id and only_supplier of search; for a
\* call that runs the discovery, what it reads: files[m] is what importing the
\* m-th supplier_*.py file of the glob does, config[m] whether the suppliers
\* configuration lets the setup of supplier m succeed
NoArgs == [supplier_id |-> NoSupplier, only_supplier |-> FALSE,
           files |-> <<>>, config |-> <<>>]

SearchArgs(supplier_id, only_supplier) ==
    [NoArgs EXCEPT !.supplier_id = supplier_id, !.only_supplier = only_supplier]

DiscoveryArgs(files, config) ==
    [NoArgs EXCEPT !.files = files, !.config = config]

\* ret records the last call of the caller thread: the function (op), its
\* arguments and inputs, the exception that left it (exc, "none" when it returned), the
\* returned value (isNone for None, handles for the list search returns, dict
\* for the map get_supplier_classes returns) and the diagnostics it emitted
\* through error_helper (log)
NoRet == [op |-> "none", args |-> NoArgs, exc |-> "none", isNone |-> TRUE,
          handles |-> <<>>, dict |-> None, log |-> <<>>]

Returned(op, args, isNone, handles, dict, log) ==
    [op |-> op, args |-> args, exc |-> "none", isNone |-> isNone,
     handles |-> handles, dict |-> dict, log |-> log]

Raised(op, args, exc, log) ==
    [op |-> op, args |-> args, exc |-> exc, isNone |-> TRUE,
     handles |-> <<>>, dict |-> None, log |-> log]

NoneList == [isNone |-> TRUE, items |-> <<>>]

List(items) == [isNone |-> FALSE, items |-> items]

\* the index of key k in dict d, 0 when d has no such key (dict.get)
IndexOf(d, k) ==
    IF \E i \in DOMAIN d.keys : d.keys[i] = k
    THEN CHOOSE i \in DOMAIN d.keys : d.keys[i] = k
    ELSE 0

\* list.remove(x): drops the first element equal to x
RemoveFirst(s, x) ==
    IF \E i \in DOMAIN s : s[i] = x
    THEN LET i == CHOOSE j \in DOMAIN s : s[j] = x /\ \A k \in 1..(j-1) : s[k] # x
         IN  SubSeq(s, 1, i-1) \o SubSeq(s, i+1, Len(s))
    ELSE s

\* ------------------------------------------------- get_supplier_classes

\* supplier_classes[0](): a fresh instance per discovery run
SupplierObject(id, run) == [id |-> id, made |-> run]

Diag(level, what, id) == [level |-> level, what |-> what, id |-> id]

\* the for loop over the supplier_*.py files, in glob order, from file i on.
\* acc is the local state: available_suppliers (keys, vals), the diagnostics
\* emitted so far, and raised when an exception left the loop.
RECURSIVE DiscoverLoop(_, _, _, _)
DiscoverLoop(files, run, i, acc) ==
    IF i > Len(files) THEN acc
    ELSE IF files[i] = "raises"
         \* only ImportError is caught: any other exception of the import
         \* leaves the loop and the function
         THEN [acc EXCEPT !.raised = TRUE]
    ELSE IF files[i] = "import_error"
         THEN DiscoverLoop(files, run, i + 1,
                  [acc EXCEPT !.log = Append(@, Diag("error", "import", i))])
    ELSE IF files[i] \in {"no_class", "multi_class"}
         THEN DiscoverLoop(files, run, i + 1,
                  [acc EXCEPT !.log = Append(@, Diag("error", files[i], i))])
    ELSE DiscoverLoop(files, run, i + 1,
             [acc EXCEPT !.keys = Append(@, i),
                         !.vals = Append(@, SupplierObject(i, run))])

Discover(files, run) ==
    DiscoverLoop(files, run, 1,
                 [raised |-> FALSE, keys |-> <<>>, vals |-> <<>>, log |-> <<>>])

\* load_suppliers_config(available_suppliers): the suppliers whose setup
\* succeeds under the configuration, in the order of available_suppliers
RECURSIVE LoadLoop(_, _, _, _)
LoadLoop(available, config, i, acc) ==
    IF i > Len(available.keys) THEN acc
    ELSE IF config[available.keys[i]]
         THEN LoadLoop(available, config, i + 1,
                  Dict(Append(acc.keys, available.keys[i]),
                       Append(acc.vals, available.vals[i])))
         ELSE LoadLoop(available, config, i + 1, acc)

load_suppliers_config(available, config) ==
    LoadLoop(available, config, 1, Dict(<<>>, <<>>))

\* hint(f"only loaded {loaded} of {available} available supplier modules")
CountHint(available, loaded) ==
    IF Len(available.keys) > Len(loaded.keys)
    THEN <<Diag("hint", "only_loaded", Len(loaded.keys))>>
    ELSE <<>>

\* AVAILABLE_SUPPLIERS = list(available_suppliers.keys())
AvailableList(available) == List(available.keys)

\* mutant: the early return is missing
Cached_Never(objects) == objects.isNone /\ ~objects.isNone

\* if _SUPPLIER_OBJECTS is not None: return _SUPPLIER_OBJECTS
Cached(objects) == ~objects.isNone

\* the body of get_supplier_classes after the early return
RunDiscovery(op, files, config) ==
    /\ runs.discoveries < MaxDiscoveries
    /\ runs' = [runs EXCEPT !.discoveries = @ + 1]
    /\ LET d == Discover(files, runs.discoveries + 1)
           available == Dict(d.keys, d.vals)
           loaded == load_suppliers_config(available, config)
           args == DiscoveryArgs(files, config)
       IN  IF d.raised
           THEN /\ _SUPPLIER_OBJECTS' = Dict(<<>>, <<>>)
                /\ UNCHANGED AVAILABLE_SUPPLIERS
                /\ ret' = Raised(op, args, "Exception", d.log)
           ELSE /\ _SUPPLIER_OBJECTS' = loaded
                /\ AVAILABLE_SUPPLIERS' = AvailableList(available)
                /\ ret' = Returned(op, args, FALSE, <<>>, loaded,
                                   d.log \o CountHint(available, loaded))
    /\ UNCHANGED <<_SUPPLIER_COMPANIES, _SUPPLIERS, tasks, adapterVars>>

\* the deployments of n supplier modules a discovery can meet (the
\* configuration only matters for a module that loads)
Deployments(n) ==
    {[files |-> [m \in 1..n |-> IF k[m] = "unconfigured" THEN "ok" ELSE k[m]],
      config |-> [m \in 1..n |-> k[m] # "unconfigured"]] :
        k \in [1..n -> ModuleKinds \cup {"unconfigured"}]}

\* the deployments of NModules supplier modules
AllDeployments == Deployments(NModules)

\* the deployments of the forced re-discovery scenario
ReloadDeployments == Deployments(ReloadModules)

\* get_supplier_classes(), in a process that can meet the deployments D
get_supplier_classes(D) ==
    IF Cached(_SUPPLIER_OBJECTS)
    THEN /\ ret' = Returned("get_supplier_classes", NoArgs, FALSE, <<>>,
                            _SUPPLIER_OBJECTS, <<>>)
         /\ UNCHANGED <<_SUPPLIER_OBJECTS, AVAILABLE_SUPPLIERS,
                        _SUPPLIER_COMPANIES, _SUPPLIERS, tasks, runs, adapterVars>>
    ELSE \E d \in D :
             RunDiscovery("get_supplier_classes", d.files, d.config)

\* get_suppliers(reload=True, ...), as cli.py calls it after the configuration
\* directory was set: the discovery is run again whatever is cached
get_suppliers_reload(D) ==
    \E d \in D : RunDiscovery("get_suppliers", d.files, d.config)

\* --------------------------------------------- setup_supplier_companies

\* Company(name=supplier_object.name, ...).setup(inventree_api): a new
\* company object per run
Company(object, run) == [name |-> object.id, run |-> run]

\* failAt = 0: every Company(...).setup(...) succeeds; failAt = k: the k-th
\* iteration raises (suppliers_config[id] or the inventory backend), after the
\* companies of the k-1 suppliers before it were stored
setup_supplier_companies(failAt) ==
    /\ runs.setups < MaxSetupRuns
    /\ runs' = [runs EXCEPT !.setups = @ + 1]
    /\ IF _SUPPLIER_OBJECTS.isNone
       THEN \* _SUPPLIER_COMPANIES = {} is assigned before None.items() raises
            /\ failAt = 0
            /\ _SUPPLIER_COMPANIES' = Dict(<<>>, <<>>)
            /\ ret' = Raised("setup_supplier_companies", NoArgs, "AttributeError", <<>>)
       ELSE LET n == Len(_SUPPLIER_OBJECTS.keys)
                done == IF failAt = 0 THEN n ELSE failAt - 1
            IN  /\ failAt \in 0..n
                /\ _SUPPLIER_COMPANIES' =
                       Dict(SubSeq(_SUPPLIER_OBJECTS.keys, 1, done),
                            [i \in 1..done |->
                                Company(_SUPPLIER_OBJECTS.vals[i], runs.setups + 1)])
                /\ ret' = IF failAt = 0
                          THEN Returned("setup_supplier_companies", NoArgs, TRUE,
                                        <<>>, None, <<>>)
                          ELSE Raised("setup_supplier_companies", NoArgs,
                                      "Exception", <<>>)
    /\ UNCHANGED <<_SUPPLIER_OBJECTS, AVAILABLE_SUPPLIERS, _SUPPLIERS, tasks,
                   adapterVars>>

\* ----------------------------------------------------------------- search

Min(a, b) == IF a < b THEN a ELSE b

\* dict(zip(objects.keys(), zip(objects.values(), companies.values()))):
\* objects and companies are paired by position
BuildSuppliers(objects, companies) ==
    LET n == Min(Len(objects.keys), Min(Len(objects.vals), Len(companies.vals)))
    IN  Dict(SubSeq(objects.keys, 1, n),
             [i \in 1..n |-> [object |-> objects.vals[i],
                              company |-> companies.vals[i]]])

\* mutant: the lookup error does not return, the search goes on with every
\* supplier
SelectSuppliers_FallThrough(S, supplier_id, only_supplier) ==
    IF supplier_id = NoSupplier \/ IndexOf(S, supplier_id) = 0
    THEN [found |-> TRUE, suppliers |-> S.vals]
    ELSE LET supplier == S.vals[IndexOf(S, supplier_id)]
         IN  IF only_supplier
             THEN [found |-> TRUE, suppliers |-> <<supplier>>]
             ELSE [found |-> TRUE,
                   suppliers |-> <<supplier>> \o RemoveFirst(S.vals, supplier)]

\* mutant: the preferred supplier is inserted at the front without being
\* removed from its place
SelectSuppliers_NoRemove(S, supplier_id, only_supplier) ==
    IF supplier_id = NoSupplier
    THEN [found |-> TRUE, suppliers |-> S.vals]
    ELSE IF IndexOf(S, supplier_id) # 0
         THEN LET supplier == S.vals[IndexOf(S, supplier_id)]
              IN  IF only_supplier
                  THEN [found |-> TRUE, suppliers |-> <<supplier>>]
                  ELSE [found |-> TRUE, suppliers |-> <<supplier>> \o S.vals]
         ELSE [found |-> FALSE, suppliers |-> <<>>]

\* suppliers = list(_SUPPLIERS.values()) and the supplier_id branch:
\* found is FALSE on the lookup error
SelectSuppliers(S, supplier_id, only_supplier) ==
    IF supplier_id = NoSupplier
    THEN [found |-> TRUE, suppliers |-> S.vals]
    ELSE IF IndexOf(S, supplier_id) # 0
         THEN LET supplier == S.vals[IndexOf(S, supplier_id)]
              IN  IF only_supplier
                  THEN [found |-> TRUE, suppliers |-> <<supplier>>]
                  ELSE [found |-> TRUE,
                        suppliers |-> <<supplier>> \o RemoveFirst(S.vals, supplier)]
         ELSE [found |-> FALSE, suppliers |-> <<>>]

\* mutant: suppliers is the list the dict itself keeps, so that remove,
\* insert and "suppliers = [supplier]" reorder or shrink the cached dict
CachedAfter_Shared(S, sel) ==
    IF sel.found
    THEN Dict([i \in DOMAIN sel.suppliers |->
                  S.keys[CHOOSE k \in DOMAIN S.vals : S.vals[k] = sel.suppliers[i]]],
              sel.suppliers)
    ELSE S

\* _SUPPLIERS after the supplier_id branch: list(_SUPPLIERS.values()) is a
\* new list, so suppliers.remove, suppliers.insert and the rebinding
\* "suppliers = [supplier]" act on the local list and not on the dict S
CachedAfter(S, sel) == S

\* thread_pool.apply_async(supplier_object.search, (search_term,)): the task
\* of pool p that runs the search of this supplier object
Submit(p, supplier) ==
    [pool |-> p, supplier |-> supplier.object, status |-> "queued",
     result |-> [kind |-> "none", by |-> 0]]

\* the list comprehension over suppliers: one (api_company, AsyncResult) pair
\* per selected supplier; the AsyncResult is named by its index in tasks
Handles(suppliers, first) ==
    [i \in 1..Len(suppliers) |->
        [company |-> suppliers[i].company, task |-> first + i]]

NewTasks(suppliers, p) ==
    [i \in 1..Len(suppliers) |-> Submit(p, suppliers[i])]

SetupFirst == "AssertionError: call setup_supplier_companies(...) first"

\* mutant: the first assertion is missing, so a missing company mapping
\* surfaces as the AttributeError of None.keys() or None.values()
SearchCheck_NoSetupAssert(S, objects, companies) ==
    IF ~S.isNone THEN "cached"
    ELSE IF objects.isNone \/ companies.isNone THEN "AttributeError"
    ELSE IF Range(objects.keys) # Range(companies.keys) THEN "AssertionError"
    ELSE "build"

\* the block under "if _SUPPLIERS is None": which statement of it raises, or
\* "build" when _SUPPLIERS is assigned, or "cached" when the block is skipped
SearchCheck(S, objects, companies) ==
    IF ~S.isNone THEN "cached"
    ELSE IF companies.isNone THEN SetupFirst
    ELSE IF objects.isNone THEN "AttributeError"
    ELSE IF Range(objects.keys) # Range(companies.keys) THEN "AssertionError"
    ELSE "build"

\* search(search_term, supplier_id, only_supplier); cap bounds the number of
\* calls that reach ThreadPool(processes=8)
search(supplier_id, only_supplier, cap) ==
    LET args == SearchArgs(supplier_id, only_supplier)
        check == SearchCheck(_SUPPLIERS, _SUPPLIER_OBJECTS, _SUPPLIER_COMPANIES)
    IN
    /\ UNCHANGED <<_SUPPLIER_OBJECTS, AVAILABLE_SUPPLIERS, _SUPPLIER_COMPANIES,
                   adapterVars>>
    /\ IF check \notin {"cached", "build"}
       THEN /\ ret' = Raised("search", args, check, <<>>)
            /\ UNCHANGED <<_SUPPLIERS, tasks, runs>>
       ELSE LET S == IF check = "build"
                     THEN BuildSuppliers(_SUPPLIER_OBJECTS, _SUPPLIER_COMPANIES)
                     ELSE _SUPPLIERS
                sel == SelectSuppliers(S, supplier_id, only_supplier)
            IN  /\ _SUPPLIERS' = CachedAfter(S, sel)
                /\ IF ~sel.found
                   THEN \* error(f"supplier id '{supplier_id}' not defined in ..."); return None
                        /\ ret' = Returned("search", args, TRUE, <<>>, None,
                                           <<Diag("error", "lookup", supplier_id)>>)
                        /\ UNCHANGED <<tasks, runs>>
                   ELSE /\ runs.pools < cap
                        /\ runs' = [runs EXCEPT !.pools = @ + 1]
                        /\ tasks' = tasks \o NewTasks(sel.suppliers, runs.pools + 1)
                        /\ ret' = Returned("search", args, FALSE,
                                           Handles(sel.suppliers, Len(tasks)), None, <<>>)

\* ------------------------------------------------------- the pool workers

Busy == {"running", "hung"}

Finished == {"returned", "raised"}

\* the number of tasks of pool p a worker thread is executing
RunningIn(p) ==
    Cardinality({t \in DOMAIN tasks : tasks[t].pool = p /\ tasks[t].status \in Busy})

\* the number of supplier searches executing in the process
RunningCount ==
    Cardinality({t \in DOMAIN tasks : tasks[t].status \in Busy})

\* mutant: a pool of a single worker
WorkerIdle_Serial(p) == RunningIn(p) = 0

\* a pool has Processes worker threads; one that is not executing a task
\* takes the next task of its pool's queue
WorkerIdle(p) == RunningIn(p) < Processes

\* a worker of the task's pool takes it from the queue (first in, first out)
\* and calls supplier_object.search(search_term)
StartTask(t) ==
    /\ t \in DOMAIN tasks
    /\ tasks[t].status = "queued"
    /\ \A u \in 1..(t-1) : tasks[u].pool = tasks[t].pool => tasks[u].status # "queued"
    /\ WorkerIdle(tasks[t].pool)
    /\ tasks' = [tasks EXCEPT ![t].status = "running"]
    /\ UNCHANGED <<_SUPPLIER_OBJECTS, AVAILABLE_SUPPLIERS,
                   _SUPPLIER_COMPANIES, _SUPPLIERS, ret, runs, adapterVars>>

\* mutant: an exception of one task fails every unfinished task of its pool
Complete_FailFast(t, status, kind) ==
    [u \in DOMAIN tasks |->
        IF u = t \/ ( /\ status = "raised"
                      /\ tasks[u].pool = tasks[t].pool
                      /\ tasks[u].status \notin {"returned", "raised"} )
        THEN [tasks[u] EXCEPT !.status = status,
                              !.result = [kind |-> kind, by |-> tasks[t].supplier.id]]
        ELSE tasks[u]]

\* what the completion of task t does to the tasks: the value or the
\* exception is stored in the AsyncResult of t alone
Complete(t, status, kind) ==
    [tasks EXCEPT ![t].status = status,
                  ![t].result = [kind |-> kind, by |-> tasks[t].supplier.id]]

\* the adapter's search returns: a Search Result Set ("results") or the
\* adapter's failure value ("failure")
TaskReturns(t, kind) ==
    /\ t \in DOMAIN tasks
    /\ tasks[t].status = "running"
    /\ tasks' = Complete(t, "returned", kind)
    /\ UNCHANGED <<_SUPPLIER_OBJECTS, AVAILABLE_SUPPLIERS,
                   _SUPPLIER_COMPANIES, _SUPPLIERS, ret, runs, adapterVars>>

\* the adapter's search raises: the pool stores the exception in the task's
\* AsyncResult
TaskRaises(t) ==
    /\ t \in DOMAIN tasks
    /\ tasks[t].status = "running"
    /\ tasks' = Complete(t, "raised", "exception")
    /\ UNCHANGED <<_SUPPLIER_OBJECTS, AVAILABLE_SUPPLIERS,
                   _SUPPLIER_COMPANIES, _SUPPLIERS, ret, runs, adapterVars>>

\* the adapter's remote call never answers: the worker stays blocked in it
TaskHangs(t) ==
    /\ t \in DOMAIN tasks
    /\ tasks[t].status = "running"
    /\ tasks' = [tasks EXCEPT ![t].status = "hung"]
    /\ UNCHANGED <<_SUPPLIER_OBJECTS, AVAILABLE_SUPPLIERS,
                   _SUPPLIER_COMPANIES, _SUPPLIERS, ret, runs, adapterVars>>

\* ------------------------------------------------- the adapters' state

\* TIApi.oauthAccessToken = "" and TIApi.oauthValidUntil = 0; access tokens
\* are named 1, 2, ... in the order the token endpoint issues them, and
\* expiryOf remembers which token's response oauthValidUntil was computed from
NoToken == [oauthAccessToken |-> 0, oauthValidUntil |-> 0, expiryOf |-> 0]

\* a worker thread that is not inside TIApi._getOauthToken
NoFrame == [pc |-> "idle", now |-> 0, j |-> [access_token |-> 0, expires_in |-> 0],
            returned |-> "nothing", token |-> 0]

NoSearch == [op |-> "none", upstream |-> <<>>, outcome |-> "none",
             records |-> <<>>, total |-> 0, calls |-> <<>>, log |-> <<>>]

\* no call of TIApi._paginate_api_call in progress; requests remembers, for
\* every page request of the call, the page asked for and what the upstream
\* did with it
NoPaging == [pc |-> "idle", page |-> 0, results |-> <<>>, requests |-> <<>>,
             outcome |-> "none", parts |-> <<>>]

\* the adapters after import of the package, before any adapter was used
AdaptersFresh ==
    /\ clock = 0
    /\ ti_api = NoToken
    /\ frames = [w \in 1..Workers |-> NoFrame]
    /\ issued = 0
    /\ adapter = NoSearch
    /\ paging = NoPaging

\* ------------------------------------------------------ the Retry Policy

\* What the upstream does with one remote call is a record b: the first
\* b.timeouts attempts time out, the next attempt is answered with b.status
\* and a body of kind b.kind.

\* requests.get / requests.post of attempt i raises Timeout
AttemptTimesOut(b, i) == i <= b.timeouts

\* retry_timeouts(): after a Timeout another attempt is made while fewer than
\* MaxAttempts were made; after the last one the Timeout propagates
RetryAfterTimeout(i) == i < MaxAttempts

\* requests.Response.raise_for_status() raises HTTPError
RaiseForStatus(status) == status >= 400 /\ status < 600

\* the outcome of one _do_request call: what it returned or raised, the
\* diagnostics it printed and the remote calls it made
Call(action, attempts, status, outcome, log) ==
    [outcome |-> outcome, log |-> log,
     calls |-> <<[endpoint |-> action, attempts |-> attempts,
                  status |-> status, outcome |-> outcome]>>]

\* the "except (HTTPError, Timeout) as e" clause of both _do_request
\* functions: bound tells whether the local variable result was assigned.
\* result.json()["errors"][0]["message"] is printed for a body with errors;
\* a body that is not JSON (JSONDecodeError) or has no "errors" (KeyError)
\* prints the exception e; with result unassigned the clause itself raises
ExceptClause(action, attempts, bound, b) ==
    IF ~bound
    THEN Call(action, attempts, 0, "UnboundLocalError", <<>>)
    ELSE IF b.kind = "errors"
         THEN Call(action, attempts, b.status, "None",
                   <<Diag("error", "api message", action)>>)
         ELSE Call(action, attempts, b.status, "None",
                   <<Diag("error", "exception", action)>>)

\* ------------------------------------------------------------- FEApi

\* FEApi._do_request, from attempt i on
RECURSIVE FE_do_request(_, _, _)
FE_do_request(action, b, i) ==
    IF AttemptTimesOut(b, i)
    THEN IF RetryAfterTimeout(i)
         THEN FE_do_request(action, b, i + 1)
         ELSE ExceptClause(action, i, FALSE, b)
    ELSE IF RaiseForStatus(b.status)
         THEN ExceptClause(action, i, TRUE, b)
         ELSE Call(action, i, b.status, "response", <<>>)

\* the parts of a response body: n parts, named by where they came from
Parts(endpoint, page, n) ==
    [k \in 1..n |-> [endpoint |-> endpoint, page |-> page, index |-> k]]

\* FEApi.lookup after "result = self._do_request(...)": None, or result.json()
LookupResult(b, r) ==
    IF r.outcome = "response"
    THEN [r EXCEPT !.outcome = "json"] @@ [offers |-> Parts("lookup", 0, b.n)]
    ELSE r @@ [offers |-> <<>>]

\* FEApi.lookup
lookup(b) == LookupResult(b, FE_do_request("lookup", b, 1))

\* list(map(self.get_api_part, parts)): one record per part, in order
Records(parts) == [k \in DOMAIN parts |-> [SKU |-> parts[k]]]

\* FE.search after "result = self.fe_api.lookup(search_term)"
FE_SearchResult(result) ==
    IF result.outcome = "None"
    THEN result @@ [returned |-> TRUE, records |-> <<>>, total |-> 0]
    ELSE IF result.outcome = "json"
    THEN result @@ [returned |-> TRUE, records |-> Records(result.offers),
                    total |-> Len(result.offers)]
    ELSE result @@ [returned |-> FALSE, records |-> <<>>, total |-> 0]

\* FE.search
FE_search_result(b) == FE_SearchResult(lookup(b))

\* ------------------------------------------------------------- TIApi

\* "now < self.oauthValidUntil-nextRequestBuffer": the cached token is served
TokenValid(now, validUntil) == now < validUntil - nextRequestBuffer

\* mutant: 403 and 404 are raised like every other HTTP error status
TI_Raises_NoSpecialCase(status) == RaiseForStatus(status)

\* "if result.status_code != 200 and result.status_code != 404 and
\* result.status_code != 403: result.raise_for_status()"
TI_Raises(status) ==
    status # 200 /\ status # 404 /\ status # 403 /\ RaiseForStatus(status)

\* self.oauthAccessToken = j["access_token"];
\* self.oauthValidUntil = now + j["expires_in"]
StoreToken(j, now) ==
    [oauthAccessToken |-> j.access_token,
     oauthValidUntil |-> now + j.expires_in,
     expiryOf |-> j.access_token]

\* the statements of a function run after those that gave acc
After(acc, r) == [r EXCEPT !.log = acc.log \o @, !.calls = acc.calls \o @]

\* TIApi._do_request(action, bodydata=...) without auth, from attempt i on:
\* send() only posts the request
RECURSIVE TI_post(_, _, _)
TI_post(action, b, i) ==
    IF AttemptTimesOut(b, i)
    THEN IF RetryAfterTimeout(i)
         THEN TI_post(action, b, i + 1)
         ELSE ExceptClause(action, i, FALSE, b)
    ELSE IF TI_Raises(b.status)
    THEN ExceptClause(action, i, TRUE, b)
    ELSE Call(action, i, b.status, "response", <<>>)

\* st is the state a call works on: the TIApi object and the number of
\* tokens issued; tok is what the token endpoint does with a token request.
\* TIApi._getOauthToken after "result = self._do_request(...)"
TokenResponse(result, tok, st, now) ==
    IF result.outcome # "response"
    THEN result
    ELSE IF RaiseForStatus(tok.status)
    THEN [result EXCEPT !.outcome = "HTTPError"]   \* result.raise_for_status()
    ELSE IF tok.kind # "bearer"
    THEN [result EXCEPT
             !.outcome = "None",
             !.log = @ \o <<Diag("error", "unknown token type", "accesstoken")>>,
             !.st.issued = @ + 1]
    ELSE [result EXCEPT
             !.outcome = "token",
             !.st = [api |-> StoreToken([access_token |-> st.issued + 1,
                                         expires_in |-> tok.expires_in], now),
                     issued |-> st.issued + 1]]

\* TIApi._getOauthToken
_getOauthToken(tok, st, now) ==
    IF TokenValid(now, st.api.oauthValidUntil)
    THEN [outcome |-> "token", log |-> <<>>, calls |-> <<>>, st |-> st]
    ELSE TokenResponse(TI_post("accesstoken", tok, 1) @@ [st |-> st], tok, st, now)

\* the statements of attempt i that follow those that gave t
Then(t, r) == After(t, r @@ [st |-> t.st])

\* TIApi._do_request(action, urldata, auth=True) from attempt i on; t is
\* what _getOauthToken, which send() calls in every attempt, gave in attempt i
RECURSIVE Attempt(_, _, _, _, _, _)
Attempt(action, b, tok, now, i, t) ==
    IF t.outcome = "None"
    THEN t                                \* send() returns None: return None
    ELSE IF t.outcome = "UnboundLocalError"
    THEN t                                \* not caught here
    ELSE IF t.outcome = "HTTPError"
    THEN Then(t, ExceptClause(action, i, FALSE, b))
    ELSE IF AttemptTimesOut(b, i)
    THEN IF RetryAfterTimeout(i)
         THEN After(t, Attempt(action, b, tok, now, i + 1,
                               _getOauthToken(tok, t.st, now)))
         ELSE Then(t, ExceptClause(action, i, FALSE, b))
    ELSE IF TI_Raises(b.status)
    THEN Then(t, ExceptClause(action, i, TRUE, b))
    ELSE Then(t, Call(action, i, b.status, "response", <<>>))

\* TIApi._do_request(action, urldata, auth=True)
TI_do_request(action, b, tok, st, now) ==
    Attempt(action, b, tok, now, 1, _getOauthToken(tok, st, now))

\* TIApi._api_call
_api_call(action, b, tok, st, now) == TI_do_request(action, b, tok, st, now)

\* TIApi.product after "result = self._api_call(...)": None, or result.json()
ProductResult(b, result) ==
    IF result.outcome # "response"
    THEN result @@ [json |-> "none"]
    ELSE IF b.status = 403 \/ b.status = 404
    THEN [result EXCEPT !.outcome = "None"] @@ [json |-> "none"]
    ELSE [result EXCEPT !.outcome = "json"] @@ [json |-> b.kind]

\* TIApi.product
product(b, tok, st, now) == ProductResult(b, _api_call("product", b, tok, st, now))

\* the remote calls of a page request carry the page number
OfPage(r, page) ==
    [r EXCEPT !.calls = [k \in DOMAIN @ |->
                            IF @[k].endpoint = "products"
                            THEN @[k] @@ [page |-> page]
                            ELSE @[k]]]

\* "result = self._api_call(action, urldata)" with urldata["page"] = page,
\* after the statements that gave acc; pages[p+1] is what the upstream does
\* with the request of page p
PageRequest(pages, tok, now, page, acc) ==
    After(acc, OfPage(_api_call("products", pages[page + 1], tok, acc.st, now), page))

\* the loop of TIApi._paginate_api_call from the answer to the request of
\* the given page on
RECURSIVE PageLoop(_, _, _, _, _, _)
PageLoop(pages, tok, now, page, results, result) ==
    IF result.outcome # "response"
    THEN result @@ [parts |-> <<>>]
    ELSE IF pages[page + 1].status = 403 \/ pages[page + 1].status = 404
    THEN [result EXCEPT !.outcome = "None"] @@ [parts |-> <<>>]
    ELSE IF pages[page + 1].last
    THEN [result EXCEPT !.outcome = "list"]
             @@ [parts |-> results \o Parts("products", page, pages[page + 1].n)]
    ELSE PageLoop(pages, tok, now, page + 1,
                  results \o Parts("products", page, pages[page + 1].n),
                  PageRequest(pages, tok, now, page + 1, result))

\* TIApi._paginate_api_call
_paginate_api_call(pages, tok, now, acc) ==
    PageLoop(pages, tok, now, 0, <<>>, PageRequest(pages, tok, now, 0, acc))

\* TIApi.products
products(pages, tok, now, acc) == _paginate_api_call(pages, tok, now, acc)

\* the JSON document of an exact lookup that is not a part
ErrorDocument == [endpoint |-> "product", page |-> 0, index |-> 0]

\* mutant: the error code ERR-TICOM-INV-API-1002 is not recognised
ExactParts_NoErrorCode(json) ==
    IF json = "no_such_part" \/ json = "other_error"
    THEN <<ErrorDocument>>
    ELSE Parts("product", 0, 1)

\* the list TI._searchForExactPart returns for the document of the exact
\* lookup: [] for errors with ERR-TICOM-INV-API-1002, else [ti_part]
ExactParts(json) ==
    IF json = "no_such_part"
    THEN <<>>
    ELSE IF json = "other_error"
    THEN <<ErrorDocument>>
    ELSE Parts("product", 0, 1)

\* TI._searchForExactPart after "ti_part = self.ti_api.product(search_term)"
ExactResult(ti_part) ==
    IF ti_part.outcome # "json"
    THEN ti_part @@ [parts |-> <<>>]
    ELSE [ti_part EXCEPT !.outcome = "list"] @@ [parts |-> ExactParts(ti_part.json)]

\* TI._searchForExactPart
_searchForExactPart(b, tok, st, now) == ExactResult(product(b, tok, st, now))

\* mutant: the generic lookup is made whenever the exact lookup gave no part
NeedsGeneric_Always(ti_parts) ==
    ti_parts.outcome = "None" \/ Len(ti_parts.parts) = 0

\* "ti_parts is not None and len(ti_parts) == 0"
NeedsGeneric(ti_parts) ==
    ti_parts.outcome = "list" /\ Len(ti_parts.parts) = 0

\* TI.search, lines 23-24: the generic lookup after the exact one
Generic(pages, tok, now, ti_parts) ==
    IF NeedsGeneric(ti_parts)
    THEN products(pages, tok, now, ti_parts)
    ELSE ti_parts

\* TI.search, lines 25-28: what it returns or raises for ti_parts
SearchResult(ti_parts) ==
    IF ti_parts.outcome = "None"
    THEN ti_parts @@ [returned |-> TRUE, records |-> <<>>, total |-> 0]
    ELSE IF ti_parts.outcome # "list"
    THEN ti_parts @@ [returned |-> FALSE, records |-> <<>>, total |-> 0]
    ELSE IF \E k \in DOMAIN ti_parts.parts : ti_parts.parts[k] = ErrorDocument
    THEN \* get_api_part: ti_part["pricing"] raises KeyError
         [ti_parts EXCEPT !.outcome = "KeyError"]
             @@ [returned |-> FALSE, records |-> <<>>, total |-> 0]
    ELSE ti_parts @@ [returned |-> TRUE, records |-> Records(ti_parts.parts),
                      total |-> Len(ti_parts.parts)]

\* TI.search
TI_search_result(prod, pages, tok, st, now) ==
    SearchResult(Generic(pages, tok, now, _searchForExactPart(prod, tok, st, now)))

\* ------------------------------------------------- the adapters' searches

\* the state of the registry and the dispatcher
registryVars == <<_SUPPLIER_OBJECTS, AVAILABLE_SUPPLIERS, _SUPPLIER_COMPANIES,
                  _SUPPLIERS, tasks, ret, runs>>

\* what a call of an adapter's search did: r.returned tells whether it
\* returned (records, total) or raised r.outcome
SearchOutcome(op, upstream, r) ==
    [op |-> op, upstream |-> upstream, outcome |-> r.outcome,
     returned |-> r.returned, records |-> r.records, total |-> r.total,
     calls |-> r.calls, log |-> r.log]

\* FE.search(search_term), the upstream doing b with the lookup request
FE_search(b) ==
    /\ adapter' = SearchOutcome("FE.search", [lookup |-> b], FE_search_result(b))
    /\ UNCHANGED <<registryVars, clock, ti_api, frames, issued, paging>>

\* the end of a TI.search that did r: the TIApi object keeps the token the
\* search stored
TI_search_ends(upstream, r) ==
    /\ r.st.issued <= MaxTokens
    /\ ti_api' = r.st.api
    /\ issued' = r.st.issued
    /\ adapter' = SearchOutcome("TI.search", upstream, r)
    /\ UNCHANGED <<registryVars, clock, frames, paging>>

\* TI.search(search_term), the upstream doing prod with the exact lookup,
\* pages with the page requests and tok with every token request
TI_search(prod, pages, tok) ==
    TI_search_ends([product |-> prod, pages |-> pages, token |-> tok],
                   TI_search_result(prod, pages, tok,
                                    [api |-> ti_api, issued |-> issued], clock))

\* ------------------------------------------------- upstream behaviours

\* bodies of an HTTP error response: JSON with an "errors" list, not JSON,
\* JSON without "errors"
ErrorBodies == {"errors", "html", "json"}

Answer(status, kind, n, last, expires_in) ==
    [timeouts |-> 0, status |-> status, kind |-> kind, n |-> n, last |-> last,
     expires_in |-> expires_in]

\* every attempt times out
Exhausted == [Answer(0, "timeout", 0, FALSE, 0) EXCEPT !.timeouts = MaxAttempts]

\* an answer after fewer than MaxAttempts timeouts, or no answer
WithTimeouts(answers) ==
    {[a EXCEPT !.timeouts = t] : a \in answers, t \in 0..(MaxAttempts - 1)}
        \cup {Exhausted}

ServerErrors == {Answer(500, k, 0, FALSE, 0) : k \in ErrorBodies}

Forbidden == {Answer(s, "html", 0, FALSE, 0) : s \in {403, 404}}

\* the lookup endpoint of FE: offers, or an HTTP error
LookupBehaviours ==
    WithTimeouts({Answer(200, "offers", n, FALSE, 0) : n \in 0..MaxParts}
                 \cup {Answer(s, k, 0, FALSE, 0) : s \in {403, 404, 500}, k \in ErrorBodies})

\* the exact lookup of TI: a part, errors with ERR-TICOM-INV-API-1002, errors
\* with other codes, or an HTTP error
ProductBehaviours ==
    WithTimeouts({Answer(200, k, 0, FALSE, 0) : k \in {"part", "no_such_part", "other_error"}}
                 \cup Forbidden \cup ServerErrors)

PageBehaviours ==
    WithTimeouts({Answer(200, "page", n, last, 0) : n \in 0..MaxParts, last \in BOOLEAN}
                 \cup Forbidden \cup ServerErrors)

\* a page after which _paginate_api_call requests the next one
Continuing == {b \in PageBehaviours : b.timeouts < MaxAttempts /\ b.status = 200 /\ ~b.last}

\* the upstream's pages up to the first one that is last or fails
RECURSIVE Scripts(_)
Scripts(n) ==
    IF n = 1
    THEN {<<b>> : b \in PageBehaviours \ Continuing}
    ELSE {<<b>> \o s : b \in Continuing, s \in Scripts(n - 1)}

PageScripts == UNION {Scripts(n) : n \in 1..MaxPages}

ExpiresIn == {nextRequestBuffer, 3 * nextRequestBuffer}

\* the token endpoint: answers the first attempt, or never answers
TokenBehaviours ==
    {Answer(200, k, 0, FALSE, e) : k \in {"bearer", "mac"}, e \in ExpiresIn}
        \cup Forbidden \cup ServerErrors \cup {Exhausted}

\* the exact lookups after which TI.search requests pages
Paging == {b \in ProductBehaviours : b.timeouts < MaxAttempts /\ b.kind = "no_such_part"}

\* what the upstream of TI does during one search: the ways it can answer
\* page and token requests are drawn only where the search makes them (an
\* empty last page and no answer stand for the others)
TIUpstreams(now, api) ==
    {[product |-> prod, pages |-> pages, token |-> tok] :
        prod \in ProductBehaviours \ Paging,
        pages \in {<<Answer(200, "page", 0, TRUE, 0)>>},
        tok \in IF TokenValid(now, api.oauthValidUntil)
                THEN {Exhausted} ELSE TokenBehaviours}
    \cup
    {[product |-> prod, pages |-> pages, token |-> tok] :
        prod \in Paging, pages \in PageScripts,
        tok \in IF TokenValid(now, api.oauthValidUntil)
                THEN {Exhausted} ELSE TokenBehaviours}

\* ------------------------------- TIApi._getOauthToken on worker threads

\* Worker threads of the pools run TI.search of the one TI object at the same
\* time; each statement of _getOauthToken that reads or writes the TIApi
\* object is a step of its own.

adapterFrame == <<registryVars, adapter, paging>>

\* the frame of a worker that left _getOauthToken: what the call returned
\* ("token", "None") or raised, and the token it returned
Left(returned, token) ==
    [NoFrame EXCEPT !.pc = "done", !.returned = returned, !.token = token]

\* "now = time.monotonic()": worker w enters _getOauthToken
GetToken_now(w) ==
    /\ frames[w].pc \in {"idle", "done"}
    /\ frames' = [frames EXCEPT ![w] = [NoFrame EXCEPT !.pc = "check", !.now = clock]]
    /\ UNCHANGED <<adapterFrame, clock, ti_api, issued>>

\* "if now < self.oauthValidUntil-nextRequestBuffer"
GetToken_check(w) ==
    /\ frames[w].pc = "check"
    /\ frames' = [frames EXCEPT ![w].pc =
                      IF TokenValid(frames[w].now, ti_api.oauthValidUntil)
                      THEN "cached" ELSE "request"]
    /\ UNCHANGED <<adapterFrame, clock, ti_api, issued>>

\* "return self.oauthAccessToken" (line 102)
GetToken_cached(w) ==
    /\ frames[w].pc = "cached"
    /\ frames' = [frames EXCEPT ![w] = Left("token", ti_api.oauthAccessToken)]
    /\ UNCHANGED <<adapterFrame, clock, ti_api, issued>>

\* what the statements up to the token type check, having done r, leave in
\* the frame of worker w
GetToken_response(w, tok, r) ==
    IF r.outcome = "token"
    THEN /\ issued < MaxTokens
         /\ issued' = issued + 1
         /\ frames' = [frames EXCEPT
                          ![w].pc = "store_token",
                          ![w].j = [access_token |-> issued + 1,
                                    expires_in |-> tok.expires_in]]
    ELSE /\ issued' = issued
         /\ frames' = [frames EXCEPT ![w] = Left(r.outcome, 0)]

\* the token request and the statements up to the token type check (those
\* _getOauthToken runs when the cache is empty), the token endpoint doing
\* tok: the call ends with None or an exception, or j holds the response
GetToken_request(w, tok) ==
    /\ frames[w].pc = "request"
    /\ GetToken_response(w, tok, _getOauthToken(tok, [api |-> NoToken, issued |-> issued], 0))
    /\ UNCHANGED <<adapterFrame, clock, ti_api>>

\* "self.oauthAccessToken = j["access_token"]"
GetToken_storeToken(w) ==
    /\ frames[w].pc = "store_token"
    /\ ti_api' = [ti_api EXCEPT !.oauthAccessToken = frames[w].j.access_token]
    /\ frames' = [frames EXCEPT ![w].pc = "store_expiry"]
    /\ UNCHANGED <<adapterFrame, clock, issued>>

\* "self.oauthValidUntil = now + j["expires_in"]"
GetToken_storeValidUntil(w) ==
    /\ frames[w].pc = "store_expiry"
    /\ ti_api' = [ti_api EXCEPT
                     !.oauthValidUntil = frames[w].now + frames[w].j.expires_in,
                     !.expiryOf = frames[w].j.access_token]
    /\ frames' = [frames EXCEPT ![w].pc = "return"]
    /\ UNCHANGED <<adapterFrame, clock, issued>>

\* "return self.oauthAccessToken" (line 119)
GetToken_return(w) ==
    /\ frames[w].pc = "return"
    /\ frames' = [frames EXCEPT ![w] = Left("token", ti_api.oauthAccessToken)]
    /\ UNCHANGED <<adapterFrame, clock, ti_api, issued>>

\* time passes
TimePasses ==
    /\ clock + Tick <= MaxClock
    /\ clock' = clock + Tick
    /\ UNCHANGED <<adapterFrame, ti_api, frames, issued>>

\* ------------------- TIApi._paginate_api_call, one page request at a time

\* the page request of one pass of the loop, as requests remembers it:
\* needed tells whether _getOauthToken had to ask the token endpoint
PageAsked(b, tok) ==
    [page |-> paging.page, b |-> b, tok |-> tok,
     needed |-> ~TokenValid(clock, ti_api.oauthValidUntil)]

\* one pass of the "while True" loop in frame f after
\* "result = self._api_call(action, urldata)", the upstream having done b
\* with the request: the call returns None or results, the exception of
\* _api_call leaves it, or page becomes page + 1
PagePass(f, b, result) ==
    IF result.outcome # "response"
    THEN [f EXCEPT !.pc = "done", !.outcome = result.outcome]
    ELSE IF b.status = 403 \/ b.status = 404
    THEN [f EXCEPT !.pc = "done", !.outcome = "None"]
    ELSE IF b.last
    THEN [f EXCEPT !.pc = "done", !.outcome = "list",
                   !.results = @ \o Parts("products", f.page, b.n),
                   !.parts = f.results \o Parts("products", f.page, b.n)]
    ELSE [f EXCEPT !.results = @ \o Parts("products", f.page, b.n),
                   !.page = @ + 1]

\* "results = []; page = 0": TIApi.products calls _paginate_api_call
Paginate_begin ==
    /\ paging.pc \in {"idle", "done"}
    /\ paging' = [NoPaging EXCEPT !.pc = "loop"]
    /\ UNCHANGED <<registryVars, clock, ti_api, frames, issued, adapter>>

\* the end of a pass whose _api_call did result: the TIApi object keeps the
\* token the call stored
Paginate_pass(rq, result) ==
    /\ result.st.issued <= MaxTokens
    /\ ti_api' = result.st.api
    /\ issued' = result.st.issued
    /\ paging' = PagePass([paging EXCEPT !.requests = Append(@, rq)], rq.b, result)
    /\ UNCHANGED <<registryVars, clock, frames, adapter>>

\* one pass of the loop, the upstream doing b with the page request and tok
\* with the token request
Paginate_request(b, tok) ==
    /\ paging.pc = "loop"
    /\ Paginate_pass(PageAsked(b, tok),
                     _api_call("products", b, tok,
                               [api |-> ti_api, issued |-> issued], clock))

\* what the upstream can do with the request of a page: by page MaxPages - 1
\* it has sent a page marked last or a failing page
PagesAt(page) ==
    IF page + 1 < MaxPages THEN PageBehaviours ELSE PageBehaviours \ Continuing

\* what the token endpoint can do during a page request made at time now
TokensAt(now, api) ==
    IF TokenValid(now, api.oauthValidUntil) THEN {Exhausted} ELSE TokenBehaviours

\* ------------------------------------------------------- get_api_part

\* a Python dict as a function: d[k] = v
DictSet(d, k, v) == (k :> v) @@ d

\* Python None, for a local variable that holds a price
NoPrice == [isNone |-> TRUE, price |-> 0]

\* the loop "for v in fe_part["pricing"]" of FE.get_api_part from item i on:
\* breaks at or below the minimum feed best_price_for_minimum, the others
\* are copied
RECURSIVE CollapseLoop(_, _, _, _, _)
CollapseLoop(fe_pricing, minimum_qty, i, pricing, best_price_for_minimum) ==
    IF i > Len(fe_pricing)
    THEN [pricing |-> pricing, best_price_for_minimum |-> best_price_for_minimum]
    ELSE LET qty == fe_pricing[i].quantity_from
             price == fe_pricing[i].unit_price
         IN  IF qty <= minimum_qty
             THEN IF \/ best_price_for_minimum.isNone
                     \/ best_price_for_minimum.price > price
                  THEN CollapseLoop(fe_pricing, minimum_qty, i + 1, pricing,
                                    [isNone |-> FALSE, price |-> price])
                  ELSE CollapseLoop(fe_pricing, minimum_qty, i + 1, pricing,
                                    best_price_for_minimum)
             ELSE CollapseLoop(fe_pricing, minimum_qty, i + 1,
                               DictSet(pricing, qty, price), best_price_for_minimum)

\* mutant: the break at the minimum takes the price of the last upstream
\* break at or below it
Collapse_LastPrice(fe_pricing, minimum_qty) ==
    LET below == {i \in DOMAIN fe_pricing : fe_pricing[i].quantity_from <= minimum_qty}
        above == {i \in DOMAIN fe_pricing : fe_pricing[i].quantity_from > minimum_qty}
        last == CHOOSE i \in below : \A k \in below : k <= i
        kept == [q \in {fe_pricing[i].quantity_from : i \in above} |->
                    fe_pricing[CHOOSE i \in above :
                                   /\ fe_pricing[i].quantity_from = q
                                   /\ \A k \in above :
                                          fe_pricing[k].quantity_from = q => k <= i].unit_price]
    IN  IF below = {} THEN kept
        ELSE DictSet(kept, minimum_qty, fe_pricing[last].unit_price)

\* the price_breaks of FE.get_api_part
Collapse(fe_pricing, minimum_qty) ==
    LET loop == CollapseLoop(fe_pricing, minimum_qty, 1, <<>>, NoPrice)
    IN  IF ~loop.best_price_for_minimum.isNone
        THEN DictSet(loop.pricing, minimum_qty, loop.best_price_for_minimum.price)
        ELSE loop.pricing

\* the ApiPart of FE.get_api_part: its price_breaks and currency
FE_ApiPart(fe_part) ==
    [price_breaks |-> Collapse(fe_part.pricing, fe_part.quantity_minimum),
     currency |-> fe_part.currency_code]

\* mutant: the loop over the price lists goes on after the list of the
\* requested currency was found
RECURSIVE SelectPricing_NoBreak(_, _, _, _)
SelectPricing_NoBreak(ti_pricing, currency, i, pricingData) ==
    IF i > Len(ti_pricing)
    THEN pricingData
    ELSE IF ti_pricing[i].currency = currency \/ ti_pricing[i].currency = "USD"
    THEN SelectPricing_NoBreak(ti_pricing, currency, i + 1, ti_pricing[i])
    ELSE SelectPricing_NoBreak(ti_pricing, currency, i + 1, pricingData)

\* the loop "for v in ti_part["pricing"]" of TI.get_api_part from item i on:
\* the list of the requested currency ends the loop, a USD list is kept as
\* the fallback
RECURSIVE SelectPricing(_, _, _, _)
SelectPricing(ti_pricing, currency, i, pricingData) ==
    IF i > Len(ti_pricing)
    THEN pricingData
    ELSE IF ti_pricing[i].currency = currency
    THEN ti_pricing[i]
    ELSE IF ti_pricing[i].currency = "USD"
    THEN SelectPricing(ti_pricing, currency, i + 1, ti_pricing[i])
    ELSE SelectPricing(ti_pricing, currency, i + 1, pricingData)

\* {v["priceBreakQuantity"]: v["price"] for v in priceBreaks}, from item i on
RECURSIVE BreaksDict(_, _, _)
BreaksDict(priceBreaks, i, d) ==
    IF i > Len(priceBreaks)
    THEN d
    ELSE BreaksDict(priceBreaks, i + 1,
                    DictSet(d, priceBreaks[i].priceBreakQuantity, priceBreaks[i].price))

\* the ApiPart of TI.get_api_part: its price_breaks and currency
TI_ApiPart(ti_part, currency) ==
    LET pricingData == SelectPricing(ti_part.pricing, currency, 1,
                                     [currency |-> currency, priceBreaks |-> <<>>])
    IN  [price_breaks |-> BreaksDict(pricingData.priceBreaks, 1, <<>>),
         currency |-> pricingData.currency]

\* what a call of get_api_part returned for its input
PartOutcome(op, input, part) ==
    [op |-> op, upstream |-> input, outcome |-> "ApiPart", returned |-> TRUE,
     records |-> <<part>>, total |-> 1, calls |-> <<>>, log |-> <<>>]

\* FE.get_api_part(fe_part)
FE_get_api_part(fe_part) ==
    /\ adapter' = PartOutcome("FE.get_api_part", fe_part, FE_ApiPart(fe_part))
    /\ UNCHANGED <<registryVars, clock, ti_api, frames, issued, paging>>

\* TI.get_api_part(ti_part), the adapter set up with the given currency
TI_get_api_part(ti_part, currency) ==
    /\ adapter' = PartOutcome("TI.get_api_part",
                              [pricing |-> ti_part.pricing, currency |-> currency],
                              TI_ApiPart(ti_part, currency))
    /\ UNCHANGED <<registryVars, clock, ti_api, frames, issued, paging>>

\* sequences of length n over S without repetition of the key
RECURSIVE Distinct(_, _)
Distinct(S, n) ==
    IF n = 0
    THEN {<<>>}
    ELSE {<<x>> \o s : x \in S, s \in Distinct(S, n - 1)}

Quantities == {1, 10, 100}

\* unit prices, in cents
Prices == {120, 150, 200}

\* the price lists of FE parts: up to MaxBreaks breaks, each quantity once,
\* in any order
FEPricings ==
    {s \in UNION {Distinct([quantity_from : Quantities, unit_price : Prices], n) :
                     n \in 0..MaxBreaks} :
        \A i, k \in DOMAIN s : s[i].quantity_from = s[k].quantity_from => i = k}

FEParts ==
    [pricing : FEPricings, quantity_minimum : {1, 5, 10, 100}, currency_code : {"EUR"}]

Currencies == {"EUR", "USD", "GBP"}

\* the price lists of TI parts: up to MaxLists lists in any order, the list
\* at position i holding one break with price i
TIPricings ==
    UNION {{[i \in 1..n |->
                [currency |-> c[i],
                 priceBreaks |-> <<[priceBreakQuantity |-> 1, price |-> i]>>]] :
               c \in [1..n -> Currencies]} : n \in 0..MaxLists}

TIParts == [pricing : TIPricings]

\* --------------------------------------------------------- specifications

NoRuns == [discoveries |-> 0, setups |-> 0, pools |-> 0]

\* the module globals after import of the package
RegistryFresh ==
    /\ _SUPPLIER_OBJECTS = None
    /\ AVAILABLE_SUPPLIERS = NoneList
    /\ _SUPPLIER_COMPANIES = None
    /\ _SUPPLIERS = None
    /\ tasks = <<>>
    /\ ret = NoRet
    /\ runs = NoRuns

Fresh == RegistryFresh /\ AdaptersFresh

SupplierIds == 0..UnknownId(NModules)

Init == Fresh

\* the caller thread: registry construction, company setup and searches
Next ==
    \/ get_supplier_classes(AllDeployments)
    \/ \E failAt \in 0..NModules : setup_supplier_companies(failAt)
    \/ \E supplier_id \in SupplierIds, only_supplier \in BOOLEAN :
           search(supplier_id, only_supplier, MaxSearches)

Spec == Init /\ [][Next]_vars

\* a process in which every one of n supplier modules was discovered and
\* loaded by get_supplier_classes and setup_supplier_companies has
\* succeeded: the state in which the CLI starts to search
InitLoaded(n) ==
    LET d == Discover([m \in 1..n |-> "ok"], 1)
        available == Dict(d.keys, d.vals)
        loaded == load_suppliers_config(available, [m \in 1..n |-> TRUE])
    IN  /\ _SUPPLIER_OBJECTS = loaded
        /\ AVAILABLE_SUPPLIERS = AvailableList(available)
        /\ _SUPPLIER_COMPANIES =
               Dict(loaded.keys, [i \in 1..Len(loaded.keys) |-> Company(loaded.vals[i], 1)])
        /\ _SUPPLIERS = None
        /\ tasks = <<>>
        /\ ret = Returned("setup_supplier_companies", NoArgs, TRUE, <<>>, None, <<>>)
        /\ runs = [discoveries |-> 1, setups |-> 1, pools |-> 0]
        /\ AdaptersFresh

\* the worker threads of the pools: a task ends when the adapter's search
\* returns, raises or blocks for good
TaskEnds(t) ==
    \/ \E kind \in {"results", "failure"} : TaskReturns(t, kind)
    \/ TaskRaises(t)
    \/ TaskHangs(t)

\* one search call and the workers of the pool it creates
InitFanout == InitLoaded(FanoutModules)

NextFanout ==
    \/ \E supplier_id \in 0..UnknownId(FanoutModules), only_supplier \in BOOLEAN :
           search(supplier_id, only_supplier, 1)
    \/ \E t \in 1..FanoutModules : StartTask(t)
    \/ \E t \in 1..FanoutModules : TaskEnds(t)

SpecFanout == InitFanout /\ [][NextFanout]_vars

\* the operating system schedules every worker thread, and a call of an
\* adapter's search returns, raises or blocks for good
FairFanout ==
    /\ SpecFanout
    /\ \A t \in 1..FanoutModules : WF_vars(StartTask(t)) /\ WF_vars(TaskEnds(t))

\* searches issued while the tasks of earlier searches are still running
InitPool == InitLoaded(PoolModules)

NextPool ==
    \/ \E supplier_id \in {NoSupplier, PoolModules}, only_supplier \in BOOLEAN :
           search(supplier_id, only_supplier, PoolSearches)
    \/ \E t \in 1..(PoolModules * PoolSearches) : StartTask(t)
    \/ \E t \in 1..(PoolModules * PoolSearches) : TaskReturns(t, "results")
    \/ \E t \in 1..(PoolModules * PoolSearches) : TaskRaises(t)

SpecPool == InitPool /\ [][NextPool]_vars

\* registry construction with forced re-discovery
NextReload ==
    \/ get_supplier_classes(ReloadDeployments)
    \/ get_suppliers_reload(ReloadDeployments)

SpecReload == Init /\ [][NextReload]_vars

\* the adapters, each called once in a process whose TI adapter has no token
\* yet or has the first token, issued at time 0
ClockValues == {k * Tick : k \in 0..(MaxClock \div Tick)}

InitAdapters ==
    /\ RegistryFresh
    /\ clock \in ClockValues
    /\ \/ ti_api = NoToken /\ issued = 0
       \/ \E e \in ExpiresIn :
              /\ ti_api = StoreToken([access_token |-> 1, expires_in |-> e], 0)
              /\ issued = 1
    /\ frames = [w \in 1..Workers |-> NoFrame]
    /\ adapter = NoSearch
    /\ paging = NoPaging

NextAdapters ==
    \/ /\ adapter = NoSearch
       /\ \E b \in LookupBehaviours : FE_search(b)
    \/ /\ adapter = NoSearch
       /\ \E u \in TIUpstreams(clock, ti_api) : TI_search(u.product, u.pages, u.token)

SpecAdapters == InitAdapters /\ [][NextAdapters]_vars

\* the conversion of upstream parts into ApiParts
NextParts ==
    \/ \E fe_part \in FEParts : FE_get_api_part(fe_part)
    \/ \E ti_part \in TIParts, currency \in Currencies :
           TI_get_api_part(ti_part, currency)

SpecParts == Init /\ [][NextParts]_vars

\* worker threads calling TIApi._getOauthToken of the TI object
NextToken ==
    \/ \E w \in 1..Workers : GetToken_now(w)
    \/ \E w \in 1..Workers : GetToken_check(w)
    \/ \E w \in 1..Workers : GetToken_cached(w)
    \/ \E w \in 1..Workers, tok \in TokenBehaviours : GetToken_request(w, tok)
    \/ \E w \in 1..Workers : GetToken_storeToken(w)
    \/ \E w \in 1..Workers : GetToken_storeValidUntil(w)
    \/ \E w \in 1..Workers : GetToken_return(w)
    \/ TimePasses

SpecToken == Init /\ [][NextToken]_vars

\* calls of TIApi.products, the clock running between the page requests
NextPaging ==
    \/ Paginate_begin
    \/ \E b \in PagesAt(paging.page), tok \in TokensAt(clock, ti_api) :
           Paginate_request(b, tok)
    \/ TimePasses

SpecPaging == InitAdapters /\ [][NextPaging]_vars

\* the thread inside _paginate_api_call keeps running
FairPaging ==
    SpecPaging /\ WF_vars(\E b \in PagesAt(paging.page), tok \in TokensAt(clock, ti_api) :
                              Paginate_request(b, tok))

\* ------------------------------------------------------------------ claims
\* The formulas of C1..C4 are about the caller thread (Spec): there every
\* step is a call, and ret' is the outcome of the call the step makes.

\* supplier id is a key of the loaded-supplier map
Loaded(id) == ~_SUPPLIER_OBJECTS.isNone /\ id \in Range(_SUPPLIER_OBJECTS.keys)

\* the registry is built and setup_supplier_companies has given every loaded
\* supplier its company
SetupDone ==
    /\ ~_SUPPLIER_OBJECTS.isNone
    /\ ~_SUPPLIER_COMPANIES.isNone
    /\ Range(_SUPPLIER_OBJECTS.keys) = Range(_SUPPLIER_COMPANIES.keys)

LookupError(id) == <<Diag("error", "lookup", id)>>

\* C1: a search restricted (only_supplier) to a supplier id that is not
\* loaded reports the lookup error, returns no handle (None) and submits no
\* task: the task list and the number of pools are left as they were.
C1_RestrictedUnknownSupplier ==
    [][ ( /\ SetupDone
          /\ ret'.op = "search"
          /\ ret'.args.only_supplier
          /\ ret'.args.supplier_id # NoSupplier
          /\ ~Loaded(ret'.args.supplier_id) )
        => ( /\ ret'.exc = "none"
             /\ ret'.isNone
             /\ ret'.handles = <<>>
             /\ ret'.log = LookupError(ret'.args.supplier_id)
             /\ tasks' = tasks
             /\ runs'.pools = runs.pools ) ]_vars

\* witness of C1: a restricted search for an unknown id has returned None
\* with the lookup error while two or more suppliers are loaded and none
\* was contacted.
C1_Witness ==
    /\ SetupDone
    /\ Len(_SUPPLIER_OBJECTS.keys) >= 2
    /\ ret.op = "search"
    /\ ret.args.only_supplier
    /\ ret.args.supplier_id # NoSupplier
    /\ ~Loaded(ret.args.supplier_id)
    /\ ret.isNone
    /\ ret.log = LookupError(ret.args.supplier_id)
    /\ tasks = <<>>

\* the reference selection: the ids search is to query, in order
RefSelection(loaded, supplier_id, only_supplier) ==
    LET Other(k) == k # supplier_id
    IN  IF supplier_id = NoSupplier THEN loaded
        ELSE IF only_supplier THEN <<supplier_id>>
        ELSE <<supplier_id>> \o SelectSeq(loaded, Other)

\* C2: for a missing or a loaded supplier id, search returns one handle per
\* supplier of the reference selection, in its order; the i-th handle pairs
\* the company of the i-th selected supplier with a new task of a new pool
\* that runs the search of that supplier's object.
C2_HandlesFollowSelection ==
    [][ ( /\ SetupDone
          /\ ret'.op = "search"
          /\ (ret'.args.supplier_id = NoSupplier \/ Loaded(ret'.args.supplier_id)) )
        => LET ref == RefSelection(_SUPPLIER_OBJECTS.keys, ret'.args.supplier_id,
                                   ret'.args.only_supplier)
           IN  /\ ret'.exc = "none"
               /\ ~ret'.isNone
               /\ Len(ret'.handles) = Len(ref)
               /\ Len(tasks') = Len(tasks) + Len(ref)
               /\ SubSeq(tasks', 1, Len(tasks)) = tasks
               /\ \A i \in 1..Len(ref) :
                      /\ ret'.handles[i].company.name = ref[i]
                      /\ ret'.handles[i].task = Len(tasks) + i
                      /\ tasks'[Len(tasks) + i].supplier.id = ref[i]
                      /\ tasks'[Len(tasks) + i].pool = runs'.pools
                      /\ tasks'[Len(tasks) + i].status = "queued" ]_vars

\* witness of C2: with three suppliers loaded, a search preferring the last
\* of them has returned three handles, the preferred supplier first.
C2_Witness ==
    /\ SetupDone
    /\ _SUPPLIER_OBJECTS.keys = <<1, 2, 3>>
    /\ ret.op = "search"
    /\ ret.args.supplier_id = 3
    /\ ~ret.args.only_supplier
    /\ Len(ret.handles) = 3
    /\ [i \in 1..3 |-> ret.handles[i].company.name] = <<3, 1, 2>>
    /\ [i \in 1..3 |-> tasks[ret.handles[i].task].supplier.id] = <<3, 1, 2>>

\* C3 as claimed: a search preferring an unknown supplier id, without
\* restriction, reports the lookup error and still returns the handles of
\* every loaded supplier.
C3_UnknownPreferredStillQueriesOthers ==
    [][ ( /\ SetupDone
          /\ ret'.op = "search"
          /\ ~ret'.args.only_supplier
          /\ ret'.args.supplier_id # NoSupplier
          /\ ~Loaded(ret'.args.supplier_id) )
        => ( /\ ret'.log = LookupError(ret'.args.supplier_id)
             /\ [i \in 1..Len(ret'.handles) |-> ret'.handles[i].company.name]
                    = _SUPPLIER_OBJECTS.keys ) ]_vars

\* C4: a search made while setup_supplier_companies was never invoked ends
\* in the "call setup_supplier_companies(...) first" assertion, submits no
\* task and leaves the module globals as they were.
C4_SearchBeforeSetupAsserts ==
    [][ (ret'.op = "search" /\ runs.setups = 0)
        => ( /\ ret'.exc = SetupFirst
             /\ tasks' = tasks
             /\ runs' = runs
             /\ _SUPPLIERS' = _SUPPLIERS ) ]_vars

\* witness of C4: the assertion has ended a search made before both
\* get_supplier_classes and setup_supplier_companies.
C4_Witness ==
    /\ runs.setups = 0
    /\ runs.discoveries = 0
    /\ _SUPPLIER_OBJECTS.isNone
    /\ ret.op = "search"
    /\ ret.exc = SetupFirst
    /\ tasks = <<>>

\* C5 as claimed: at any time at most Processes (8) supplier searches are
\* executing in the process, however many searches were issued.
C5_GlobalCapacity == RunningCount <= Processes

\* a task of the pool of task t has failed: its search raised, or returned the
\* adapter's failure value
Failed(u) ==
    \/ tasks[u].status = "raised"
    \/ tasks[u].status = "returned" /\ tasks[u].result.kind = "failure"

FailedSibling(t) ==
    \E u \in DOMAIN tasks : u # t /\ tasks[u].pool = tasks[t].pool /\ Failed(u)

\* in every state: a finished task holds the outcome of its own supplier's
\* search, and next to a failed task of its pool a running task can still
\* return its results and the next queued task can still be started
C6_State ==
    \A t \in DOMAIN tasks :
        /\ tasks[t].status \in Finished => tasks[t].result.by = tasks[t].supplier.id
        /\ tasks[t].status = "raised" => tasks[t].result.kind = "exception"
        /\ tasks[t].status = "returned" => tasks[t].result.kind \in {"results", "failure"}
        /\ tasks[t].status \notin Finished => tasks[t].result.kind = "none"
        /\ (FailedSibling(t) /\ tasks[t].status = "running")
               => ENABLED TaskReturns(t, "results")
        /\ ( /\ FailedSibling(t)
             /\ tasks[t].status = "queued"
             /\ \A u \in 1..(t-1) : tasks[u].pool = tasks[t].pool
                                       => tasks[u].status # "queued" )
               => ENABLED StartTask(t)

\* in every step: the step in which a task fails changes no other task
C6_Step ==
    \A t \in DOMAIN tasks :
        (tasks[t].status = "running" /\ tasks'[t].status \in Finished)
            => \A u \in DOMAIN tasks : u # t => tasks'[u] = tasks[u]

\* C6: the failure of one supplier's task (an exception or a failure value)
\* cancels, fails or changes no other task of the same search call; each
\* other task still completes with the outcome of its own adapter.
C6_FailureIsolated == []C6_State /\ [][C6_Step]_vars

\* witness of C6: in the pool of one search over all suppliers one task has
\* raised, one has returned the failure value and the others have returned
\* their own results.
C6_Witness ==
    /\ Len(tasks) = FanoutModules
    /\ tasks[1].status = "raised"
    /\ tasks[2].status = "returned" /\ tasks[2].result.kind = "failure"
    /\ \A t \in 3..FanoutModules :
           /\ tasks[t].status = "returned"
           /\ tasks[t].result = [kind |-> "results", by |-> tasks[t].supplier.id]

\* C7: under fair scheduling of the workers every submitted task completes
\* unless its own call blocks for good: no task stays queued or running
\* because the call of another supplier hangs.
C7_OthersCompleteDespiteHang ==
    \A t \in 1..FanoutModules :
        (t \in DOMAIN tasks)
            ~> (t \in DOMAIN tasks /\ tasks[t].status \in Finished \cup {"hung"})

\* witness of C7: one search over all FanoutModules suppliers, the call of
\* one supplier hangs and the handles of all the others have completed.
C7_Witness ==
    /\ Len(tasks) = FanoutModules
    /\ FanoutModules <= Processes
    /\ \E h \in DOMAIN tasks :
           /\ tasks[h].status = "hung"
           /\ \A t \in DOMAIN tasks \ {h} : tasks[t].status \in Finished

\* the ids of the modules of a deployment that import with exactly one
\* Supplier class, and of those among them whose setup succeeds
OkModules(files) == {m \in DOMAIN files : files[m] = "ok"}

ConfiguredModules(files, config) == {m \in OkModules(files) : config[m]}

\* s lists the elements of set S in increasing order, each once
Lists(s, S) ==
    /\ Range(s) = S
    /\ \A i, j \in DOMAIN s : i < j => s[i] < s[j]

\* C8 as claimed: whenever get_supplier_classes has returned,
\* AVAILABLE_SUPPLIERS lists every discovered implementation, the loaded map
\* holds exactly the available suppliers whose setup succeeded, and only a
\* module that raises, never a failing setup, makes the call raise.
C8_AvailableAndLoaded ==
    /\ (ret.op = "get_supplier_classes" /\ ret.exc = "none")
           => /\ ~AVAILABLE_SUPPLIERS.isNone
              /\ ret.dict = _SUPPLIER_OBJECTS
              /\ Range(_SUPPLIER_OBJECTS.keys) \subseteq Range(AVAILABLE_SUPPLIERS.items)
              /\ ret.args.files # <<>>
                     => /\ Lists(AVAILABLE_SUPPLIERS.items, OkModules(ret.args.files))
                        /\ Lists(_SUPPLIER_OBJECTS.keys,
                                 ConfiguredModules(ret.args.files, ret.args.config))
    /\ (ret.op = "get_supplier_classes" /\ ret.exc # "none")
           => \E m \in DOMAIN ret.args.files : ret.args.files[m] = "raises"

\* C9 as claimed: a discovery run is never aborted by a module: every module
\* that fails to load or has not exactly one Supplier class is logged and
\* left out, and every other module is available.
C9_DiscoveryFailuresSkipped ==
    (ret.op = "get_supplier_classes" /\ ret.args.files # <<>>)
        => /\ ret.exc = "none"
           /\ ~AVAILABLE_SUPPLIERS.isNone
           /\ \A m \in DOMAIN ret.args.files :
                  IF ret.args.files[m] = "ok"
                  THEN m \in Range(AVAILABLE_SUPPLIERS.items)
                  ELSE /\ m \notin Range(AVAILABLE_SUPPLIERS.items)
                       /\ \E i \in DOMAIN ret.log :
                              ret.log[i].level = "error" /\ ret.log[i].id = m

CurrentCompany(company) ==
    \E j \in DOMAIN _SUPPLIER_COMPANIES.keys :
        /\ _SUPPLIER_COMPANIES.keys[j] = company.name
        /\ _SUPPLIER_COMPANIES.vals[j] = company

\* C11: every handle a search returns is paired with the company record that
\* the most recent setup_supplier_companies run produced for its supplier; a
\* search issued after a re-run never uses the mapping of an earlier run.
C11_HandlesUseLatestCompanies ==
    (ret.op = "search" /\ ret.exc = "none" /\ ~ret.isNone)
        => \A i \in DOMAIN ret.handles : CurrentCompany(ret.handles[i].company)

\* ------------------------------------------------------------ C12..C14
\* The formulas of C12..C14, C19 and C20 are about one call of an adapter's
\* search (SpecAdapters): adapter holds what the upstream did and what the
\* call returned, printed and requested.

Searched == adapter.op # "none"

\* what the upstream did with the remote call c of the last search
BehaviourOf(c) ==
    CASE c.endpoint = "lookup" -> adapter.upstream.lookup
      [] c.endpoint = "product" -> adapter.upstream.product
      [] c.endpoint = "accesstoken" -> adapter.upstream.token
      [] c.endpoint = "products" -> adapter.upstream.pages[c.page + 1]

\* the remote call c timed out on every attempt
ExhaustedCall(c) ==
    c.attempts = MaxAttempts /\ BehaviourOf(c).timeouts >= MaxAttempts

\* the error diagnostics of the last search that are about the action of c
DiagnosticsOf(c) ==
    {k \in DOMAIN adapter.log :
        adapter.log[k].level = "error" /\ adapter.log[k].id = c.endpoint}

\* C12: a remote call that times out on every attempt is made at most
\* MaxAttempts times and yields one Remote call error as a value: _do_request
\* prints one diagnostic and returns None, and nothing is raised; for FE and TI.
C12_RetryExhaustionIsValue ==
    Searched =>
        \A k \in DOMAIN adapter.calls :
            LET c == adapter.calls[k]
            IN  /\ c.attempts <= MaxAttempts
                /\ ExhaustedCall(c) =>
                       /\ c.outcome = "None"
                       /\ Cardinality(DiagnosticsOf(c)) = 1
                       /\ adapter.returned

\* the API helper returned None after an HTTP error or exhausted retries
RemoteCallFailed ==
    \E k \in DOMAIN adapter.calls : adapter.calls[k].outcome = "None"

\* the value search returns when the upstream reports zero matches
ZeroMatchValue == adapter.records = <<>> /\ adapter.total = 0

\* C13: the value search returns when the remote call could not be completed
\* at all is distinguishable from the value it returns for zero matches.
C13_FailureDistinctFromZeroMatches ==
    (Searched /\ adapter.returned /\ RemoteCallFailed) => ~ZeroMatchValue

\* the upstream answered a remote call with status 200
Completed(b) == b.timeouts < MaxAttempts /\ b.status = 200

\* every send() of the last TI.search had a token: the cached one was valid,
\* or the token endpoint answered with a bearer token
TokenObtained ==
    \/ TokenValid(clock, ti_api.oauthValidUntil)
    \/ Completed(adapter.upstream.token) /\ adapter.upstream.token.kind = "bearer"

\* the lookup of FE completed and reported no offer
FEZeroMatches ==
    /\ adapter.op = "FE.search"
    /\ Completed(adapter.upstream.lookup)
    /\ adapter.upstream.lookup.n = 0

\* the exact lookup of TI completed and reported 'no such part', and every
\* page of the generic lookup completed with an empty content list
TIZeroMatches ==
    /\ adapter.op = "TI.search"
    /\ TokenObtained
    /\ Completed(adapter.upstream.product)
    /\ adapter.upstream.product.kind = "no_such_part"
    /\ \A p \in DOMAIN adapter.upstream.pages :
           Completed(adapter.upstream.pages[p]) /\ adapter.upstream.pages[p].n = 0

\* C14: a search for which the upstream completes and reports zero matches
\* returns an empty record sequence and total_match_count = 0 and does not
\* fail; for TI: 'no such part' from the exact lookup, then empty pages.
C14_ZeroMatchesIsEmptyResult ==
    (FEZeroMatches \/ TIZeroMatches)
        => /\ adapter.returned
           /\ adapter.records = <<>>
           /\ adapter.total = 0
           /\ adapter.log = <<>>

\* witness of C14: TI.search fetched a token, got 'no such part' from the
\* exact lookup and two empty pages from the generic lookup
C14_Witness ==
    /\ TIZeroMatches
    /\ Len(adapter.upstream.pages) = 2
    /\ adapter.calls[1].endpoint = "accesstoken"
    /\ \E k \in DOMAIN adapter.calls :
           adapter.calls[k].endpoint = "products" /\ adapter.calls[k].page = 1
    /\ adapter.returned
    /\ adapter.total = 0

\* ------------------------------------------------------------ C19, C20

\* the remote calls of the last search other than token requests, in order
LookupCalls == SelectSeq(adapter.calls, LAMBDA c : c.endpoint # "accesstoken")

\* the exact lookup of the last TI.search completed with a document
ExactCompleted ==
    /\ LookupCalls # <<>>
    /\ LookupCalls[1].endpoint = "product"
    /\ LookupCalls[1].outcome = "response"
    /\ LookupCalls[1].status = 200

GenericMade == \E k \in DOMAIN LookupCalls : LookupCalls[k].endpoint = "products"

\* C19: TI.search makes the exact lookup first, and the generic paginated
\* lookup only if the exact lookup completed and reported 'no such part'
\* (not if it failed or answered 403/404); if the exact lookup returns a part
\* the result is that one record, total_match_count = 1, with no generic lookup.
C19_ExactLookupFirst ==
    adapter.op = "TI.search" =>
        /\ \A k \in DOMAIN LookupCalls :
               LookupCalls[k].endpoint = IF k = 1 THEN "product" ELSE "products"
        /\ GenericMade =>
               ExactCompleted /\ adapter.upstream.product.kind = "no_such_part"
        /\ (ExactCompleted /\ adapter.upstream.product.kind = "part") =>
               /\ ~GenericMade
               /\ adapter.returned
               /\ adapter.records = Records(Parts("product", 0, 1))
               /\ adapter.total = 1

\* witness of C19: the exact lookup returned a part after a retried timeout,
\* and TI.search returned that one record
C19_Witness ==
    /\ adapter.op = "TI.search"
    /\ ExactCompleted
    /\ adapter.upstream.product.kind = "part"
    /\ LookupCalls[1].attempts = 2
    /\ adapter.returned
    /\ adapter.total = 1

\* the lookup calls of the last search that were answered 403 or 404
ForbiddenCalls ==
    {k \in DOMAIN LookupCalls : LookupCalls[k].status \in {403, 404}}

\* C20: in TI a 403 or 404 response is not a failed attempt of _do_request
\* (nothing raised, no error diagnostic), product and _paginate_api_call
\* return None and TI.search returns no records and total_match_count = 0;
\* FE has no such case and reports 403/404 as an error.
C20_ForbiddenIsEmptyForTIOnly ==
    \A k \in ForbiddenCalls :
        LET c == LookupCalls[k]
        IN  /\ adapter.op = "TI.search" =>
                   /\ c.outcome = "response"
                   /\ DiagnosticsOf(c) = {}
                   /\ k = Len(LookupCalls)
                   /\ adapter.outcome = "None"
                   /\ adapter.returned
                   /\ adapter.records = <<>>
                   /\ adapter.total = 0
            /\ adapter.op = "FE.search" =>
                   /\ c.outcome = "None"
                   /\ Cardinality(DiagnosticsOf(c)) = 1

\* witness of C20: the generic lookup of TI.search got a page with a part
\* and then a page answered 403, and TI.search returned no records
C20_Witness ==
    /\ adapter.op = "TI.search"
    /\ Len(adapter.upstream.pages) = 2
    /\ adapter.upstream.pages[1].n = 1
    /\ \E k \in ForbiddenCalls :
           /\ LookupCalls[k].endpoint = "products"
           /\ LookupCalls[k].page = 1
           /\ LookupCalls[k].status = 403
    /\ adapter.returned
    /\ adapter.total = 0

\* ------------------------------------------------------------ C15, C16
\* The formulas of C15 and C16 are about one call of get_api_part
\* (SpecParts): adapter holds the upstream part and the ApiPart returned.

\* the upstream breaks of the FE part at or below / above its minimum
\* order quantity
BreaksBelow ==
    {i \in DOMAIN adapter.upstream.pricing :
        adapter.upstream.pricing[i].quantity_from <= adapter.upstream.quantity_minimum}

BreaksAbove == DOMAIN adapter.upstream.pricing \ BreaksBelow

\* price_breaks has no key below the minimum and keeps every upstream break
\* above the minimum unchanged
NoneBelowAndAboveKept ==
    LET price_breaks == adapter.records[1].price_breaks
        pricing == adapter.upstream.pricing
    IN  /\ \A q \in DOMAIN price_breaks : q >= adapter.upstream.quantity_minimum
        /\ \A i \in BreaksAbove :
               /\ pricing[i].quantity_from \in DOMAIN price_breaks
               /\ price_breaks[pricing[i].quantity_from] = pricing[i].unit_price

\* price_breaks has an entry at the minimum, with the lowest unit price of
\* the upstream breaks at or below the minimum
LowestAtMinimum ==
    LET price_breaks == adapter.records[1].price_breaks
        pricing == adapter.upstream.pricing
        M == adapter.upstream.quantity_minimum
    IN  /\ M \in DOMAIN price_breaks
        /\ \E i \in BreaksBelow : price_breaks[M] = pricing[i].unit_price
        /\ \A i \in BreaksBelow : price_breaks[M] <= pricing[i].unit_price

ListsIn(currency) ==
    {i \in DOMAIN adapter.upstream.pricing :
        adapter.upstream.pricing[i].currency = currency}

\* the ApiPart has the price breaks and the currency of the i-th list
TakenFrom(i) ==
    /\ adapter.records[1].price_breaks = (1 :> i)
    /\ adapter.records[1].currency = adapter.upstream.pricing[i].currency

\* C16: for every ordering of the upstream price lists TI.get_api_part uses
\* the list of the configured currency when present, otherwise the USD list
\* when present, and the record's currency is the currency of the list its
\* price_breaks were taken from.
C16_CurrencySelection ==
    adapter.op = "TI.get_api_part" =>
        LET target == adapter.upstream.currency
        IN  /\ ListsIn(target) # {} => \E i \in ListsIn(target) : TakenFrom(i)
            /\ (ListsIn(target) = {} /\ ListsIn("USD") # {})
                   => \E i \in ListsIn("USD") : TakenFrom(i)
            /\ \/ \E i \in DOMAIN adapter.upstream.pricing : TakenFrom(i)
               \/ /\ adapter.records[1].price_breaks = <<>>
                  /\ adapter.records[1].currency = target

\* witness of C16: lists in EUR and USD with target GBP gave the USD price
\* breaks and currency "USD"
C16_Witness ==
    /\ adapter.op = "TI.get_api_part"
    /\ adapter.upstream.currency = "GBP"
    /\ Len(adapter.upstream.pricing) = 2
    /\ adapter.upstream.pricing[1].currency = "EUR"
    /\ adapter.upstream.pricing[2].currency = "USD"
    /\ adapter.records[1].currency = "USD"
    /\ TakenFrom(2)

\* ------------------------------------------------------------ C17, C18
\* The formulas of C17 and C18 are about worker threads inside
\* TIApi._getOauthToken (SpecToken).

\* no worker is between the two assignments to the cache
NoStoreInProgress == \A w \in 1..Workers : frames[w].pc # "store_expiry"

\* C17: after any interleaving of concurrent refreshes the cached access
\* token and the cached expiry come from the same token response.
C17_TokenAndExpiryPaired ==
    NoStoreInProgress => ti_api.expiryOf = ti_api.oauthAccessToken

\* what C18 requires of a step of worker w
C18_Step(w) ==
    /\ (frames[w].pc = "check" /\ frames'[w].pc # "check") =>
           /\ frames'[w].pc = "request"
                  <=> frames[w].now >= ti_api.oauthValidUntil - nextRequestBuffer
           /\ frames'[w].pc \in {"request", "cached"}
    /\ (frames[w].pc = "cached" /\ frames'[w].pc # "cached") =>
           /\ frames'[w].returned = "token"
           /\ frames'[w].token = ti_api.oauthAccessToken
           /\ ti_api' = ti_api
           /\ issued' = issued
    /\ (frames[w].pc = "request" /\ frames'[w].pc = "done") =>
           /\ frames'[w].returned = "None"
           /\ ti_api' = ti_api

\* C18: _getOauthToken requests a token exactly when now is not earlier than
\* the cached expiry minus 60 seconds, and otherwise returns the cached token
\* with no remote call and no change to the cache; a refresh that fails
\* returns None and leaves the cached token and expiry unchanged.
C18_LazyRefreshWithMargin == [][\A w \in 1..Workers : C18_Step(w)]_vars


\* ---- C21: pagination
\* the token endpoint answered the token request with a bearer token
TokenGiven(tok) ==
    tok.timeouts < MaxAttempts /\ tok.status = 200 /\ tok.kind = "bearer"

\* the page request failed or was answered 403/404: no token for it, no
\* answer within the attempts, or an HTTP error status
RequestFailed(rq) ==
    \/ rq.needed /\ ~TokenGiven(rq.tok)
    \/ rq.b.timeouts >= MaxAttempts
    \/ rq.b.status # 200

\* the content of the pages of the first k requests, in page order
RECURSIVE ContentUpTo(_, _)
ContentUpTo(requests, k) ==
    IF k = 0
    THEN <<>>
    ELSE ContentUpTo(requests, k - 1)
             \o Parts("products", requests[k].page, requests[k].b.n)

\* pages are requested in the order 0, 1, 2, ..., and none after a page that
\* is marked last or failed
PagesInOrder ==
    /\ \A k \in DOMAIN paging.requests : paging.requests[k].page = k - 1
    /\ \A k \in DOMAIN paging.requests :
           (k < Len(paging.requests) \/ paging.pc = "loop")
               => ~RequestFailed(paging.requests[k]) /\ ~paging.requests[k].b.last

\* the call ended at a page marked last with the content of all pages
ReturnedAllPages ==
    /\ paging.requests[Len(paging.requests)].b.last
    /\ paging.outcome = "list"
    /\ paging.parts = ContentUpTo(paging.requests, Len(paging.requests))

\* C21: TIApi._paginate_api_call requests pages 0, 1, 2, ... in increasing
\* order, none skipped or repeated, stops at the first page marked last and
\* returns the content of all pages up to it in page order; if a page request
\* fails or answers 403/404 it returns None and no content.
C21_PagesInOrderUntilLast ==
    /\ PagesInOrder
    /\ paging.pc = "done" =>
           /\ paging.requests # <<>>
           /\ IF RequestFailed(paging.requests[Len(paging.requests)])
              THEN paging.outcome = "None" /\ paging.parts = <<>>
              ELSE ReturnedAllPages

\* C21, with the page requests that leave _api_call by an exception set
\* apart: they end the call as well, and no content is returned
C21_ExceptForExceptions ==
    /\ PagesInOrder
    /\ paging.pc = "done" =>
           /\ paging.requests # <<>>
           /\ IF RequestFailed(paging.requests[Len(paging.requests)])
              THEN paging.outcome \in {"None", "UnboundLocalError"}
                   /\ paging.parts = <<>>
              ELSE ReturnedAllPages

\* C21, termination: a call whose upstream sends a page marked last or a
\* failing page ends (FairPaging)
C21_Terminates == (paging.pc = "loop") ~> (paging.pc = "done")

\* a call that returned the content of more than one page
C21_SeveralPages ==
    /\ paging.pc = "done"
    /\ paging.outcome = "list"
    /\ Len(paging.requests) > 1
    /\ Len(paging.parts) > 1

\* ---- C22: search leaves the registry as it is
\* the cached pairs are those of the loaded suppliers and their companies, in
\* the order of the loaded-supplier map
PairsOfRegistry(S, objects, companies) ==
    /\ S.keys = objects.keys
    /\ Len(S.vals) = Len(objects.keys)
    /\ \A i \in DOMAIN S.vals :
           /\ S.vals[i].object = objects.vals[i]
           /\ S.vals[i].company = companies.vals[i]

\* the company of the supplier with the given id in the cached pairs
CachedCompany(S, id) == S.vals[IndexOf(S, id)].company

\* C22: no search call, whatever its supplier_id and only_supplier and
\* whether it returns handles, returns None with the lookup error or raises,
\* changes the loaded-supplier map, the company mapping or the available
\* list; the cached pairs are built once from the registry alone and never
\* changed by a search, and the handles of a search are those of the
\* reference selection over the cached pairs, so that they do not depend on
\* the arguments of earlier searches.
C22_SearchLeavesRegistry ==
    [][ ret'.op = "search"
        => /\ UNCHANGED <<_SUPPLIER_OBJECTS, _SUPPLIER_COMPANIES, AVAILABLE_SUPPLIERS>>
           /\ ~_SUPPLIERS.isNone => _SUPPLIERS' = _SUPPLIERS
           /\ (_SUPPLIERS.isNone /\ ~_SUPPLIERS'.isNone)
                  => PairsOfRegistry(_SUPPLIERS', _SUPPLIER_OBJECTS, _SUPPLIER_COMPANIES)
           /\ (ret'.exc = "none" /\ ~ret'.isNone)
                  => LET ref == RefSelection(_SUPPLIERS'.keys, ret'.args.supplier_id,
                                             ret'.args.only_supplier)
                     IN  /\ Len(ret'.handles) = Len(ref)
                         /\ \A i \in 1..Len(ref) :
                                ret'.handles[i].company = CachedCompany(_SUPPLIERS', ref[i])
      ]_vars

\* witness of C22: with three suppliers loaded, a first search preferred the
\* last of them and a second one, without a supplier id, has returned the
\* handles of all three in the order of the loaded-supplier map
C22_Witness ==
    /\ SetupDone
    /\ _SUPPLIER_OBJECTS.keys = <<1, 2, 3>>
    /\ _SUPPLIERS.keys = <<1, 2, 3>>
    /\ Len(tasks) = 6
    /\ tasks[1].pool = 1
    /\ tasks[1].supplier.id = 3
    /\ ret.op = "search"
    /\ ret.args.supplier_id = NoSupplier
    /\ ~ret.isNone
    /\ Len(ret.handles) = 3
    /\ \A i \in 1..3 : ret.handles[i].company.name = i
====
